---- MODULE Spec2Model ----
(***************************************************************************)
(* Model of the quote resolution route GET /api/stock/[ticker]             *)
(* (src/app/api/stock/[ticker]/route.ts): ticker parsing and validation,   *)
(* the module-level tickerCache, the direct real-key Alpha Vantage attempt *)
(* and the two ordered adapter loops.  A request is an async function: it  *)
(* runs atomically between two awaits and suspends at every await, so     *)
(* concurrent requests interleave exactly at the provider calls.           *)
(*                                                                         *)
(* Strings are sequences of one-character strings.                         *)
(***************************************************************************)
EXTENDS Integers, Sequences, FiniteSets, Bags, TLC

\* ------------------------------------------------------------------------
\* Bounds of the model
\* ------------------------------------------------------------------------
NumReq == 2       \* GET calls that may be in flight concurrently
MaxCalls == 2     \* resolve calls started in one behaviour
MaxTicks == 1     \* clock advances in one behaviour
MaxTokens == 4    \* tokens an input of the parser is made of
MaxKiteReq == 2   \* requests to the Kite endpoints in one behaviour
MaxRows == 1      \* rows in an answer of the Kite API
MaxScreenerReq == 2  \* requests to the screener endpoint in one behaviour

\* ------------------------------------------------------------------------
\* Program constants
\* ------------------------------------------------------------------------
CACHE_DURATION == 5 * 60 * 1000

\* Clock advances (ms): one millisecond short of the TTL, and the TTL.
Ticks == {CACHE_DURATION - 1, CACHE_DURATION}

\* JavaScript values of a price: undefined (or an empty string), NaN, numbers.
Undefined == -2
NaN == -1
Prices == {1}
PriceFields == {Undefined, NaN, 0} \cup Prices

\* Truthiness of a number-valued property
Truthy(n) == n \notin {Undefined, NaN, 0}

\* Truthiness of a string-valued property ("0.0000" and "abc" are truthy)
TruthyString(n) == n # Undefined

\* ------------------------------------------------------------------------
\* Strings
\* ------------------------------------------------------------------------
LowerLetters == <<"a","b","c","d","e","f","g","h","i","j","k","l","m",
                  "n","o","p","q","r","s","t","u","v","w","x","y","z">>
UpperLetters == <<"A","B","C","D","E","F","G","H","I","J","K","L","M",
                  "N","O","P","Q","R","S","T","U","V","W","X","Y","Z">>

IsUpperLetter(c) == \E i \in 1..26 : UpperLetters[i] = c

IsSpace(c) == c = " "

ToUpperChar(c) ==
  IF \E i \in 1..26 : LowerLetters[i] = c
  THEN UpperLetters[CHOOSE i \in 1..26 : LowerLetters[i] = c]
  ELSE c

\* String.prototype.toUpperCase
ToUpperCase(s) == [i \in 1..Len(s) |-> ToUpperChar(s[i])]

RECURSIVE TrimStart(_)
TrimStart(s) ==
  IF s # <<>> /\ IsSpace(Head(s)) THEN TrimStart(Tail(s)) ELSE s

RECURSIVE TrimEnd(_)
TrimEnd(s) ==
  IF s # <<>> /\ IsSpace(s[Len(s)])
  THEN TrimEnd(SubSeq(s, 1, Len(s) - 1))
  ELSE s

\* String.prototype.trim
Trim(s) == TrimEnd(TrimStart(s))

\* String.prototype.includes(":")
Includes(s, c) == \E i \in 1..Len(s) : s[i] = c

\* String.prototype.split(c): the sequence of parts between separators
RECURSIVE Split(_, _)
Split(s, c) ==
  IF ~Includes(s, c) THEN <<s>>
  ELSE LET i == CHOOSE k \in 1..Len(s) :
                  s[k] = c /\ \A j \in 1..(k - 1) : s[j] # c
       IN  <<SubSeq(s, 1, i - 1)>> \o Split(SubSeq(s, i + 1, Len(s)), c)

\* /^[A-Z]{1,n}$/.test(s)
MatchesUpper(s, n) ==
  Len(s) >= 1 /\ Len(s) <= n /\ \A i \in 1..Len(s) : IsUpperLetter(s[i])

\* ------------------------------------------------------------------------
\* Exchange names
\* ------------------------------------------------------------------------
\* The exchange property is undefined (no character of a string is this long).
NoExchange == <<"undefined">>

NASDAQ == <<"N","A","S","D","A","Q">>
NYSE == <<"N","Y","S","E">>
AMEX == <<"A","M","E","X">>
LSE == <<"L","S","E">>
LON == <<"L","O","N">>
FRA == <<"F","R","A">>
AMS == <<"A","M","S">>
SWX == <<"S","W","X">>
BME == <<"B","M","E">>
BIT == <<"B","I","T">>
OSE == <<"O","S","E">>
XETRA == <<"X","E","T","R","A">>
EURONEXT == <<"E","U","R","O","N","E","X","T">>
TSE == <<"T","S","E">>
ASX == <<"A","S","X">>
TSX == <<"T","S","X">>
HKEX == <<"H","K","E","X">>
TYO == <<"T","Y","O">>
BSE == <<"B","S","E">>
NSE == <<"N","S","E">>
MCX == <<"M","C","X">>
NCDEX == <<"N","C","D","E","X">>
ICEX == <<"I","C","E","X">>
SSE == <<"S","S","E">>
SZSE == <<"S","Z","S","E">>

internationalExchanges ==
  {NASDAQ, NYSE, AMEX, LSE, LON, FRA, XETRA, EURONEXT, TYO, TSE, HKEX, ASX, TSX}

indianExchanges == {NSE, BSE, MCX, NCDEX, ICEX}

validExchanges ==
  {NASDAQ, NYSE, AMEX,
   LSE, LON, FRA, AMS, SWX, BME, BIT, OSE, XETRA, EURONEXT,
   TSE, ASX, TSX, HKEX, TYO,
   BSE, NSE, MCX, NCDEX, ICEX,
   SSE, SZSE}

\* JavaScript truthiness of the optional exchange string
ExchangeGiven(exchange) == exchange # NoExchange /\ exchange # <<>>

isInternationalApiSupported(exchange) ==
  IF ~ExchangeGiven(exchange) THEN TRUE
  ELSE exchange \in internationalExchanges

\* ------------------------------------------------------------------------
\* parseTicker and isValidTickerFormat
\* ------------------------------------------------------------------------
\* parseTicker with the symbol alone as fullTicker
parseTicker_SymbolOnly(input) ==
  LET upperInput == Trim(ToUpperCase(input)) IN
  IF Includes(upperInput, ":")
  THEN LET parts == Split(upperInput, ":") IN
       [exchange |-> Trim(parts[1]),
        symbol |-> Trim(parts[2]),
        fullTicker |-> Trim(parts[2])]
  ELSE [exchange |-> NoExchange,
        symbol |-> upperInput,
        fullTicker |-> upperInput]

parseTicker(input) ==
  LET upperInput == Trim(ToUpperCase(input)) IN
  IF Includes(upperInput, ":")
  THEN LET parts == Split(upperInput, ":") IN
       [exchange |-> Trim(parts[1]),
        symbol |-> Trim(parts[2]),
        fullTicker |-> upperInput]
  ELSE [exchange |-> NoExchange,
        symbol |-> upperInput,
        fullTicker |-> upperInput]

isValidTickerFormat(input) ==
  LET p == parseTicker(input) IN
  /\ IF p.exchange \in indianExchanges
     THEN MatchesUpper(p.symbol, 10)
     ELSE MatchesUpper(p.symbol, 5)
  /\ (ExchangeGiven(p.exchange) => p.exchange \in validExchanges)

\* ------------------------------------------------------------------------
\* Inputs
\* ------------------------------------------------------------------------
\* Raw tickers the route is called with: a bare symbol, the same symbol on an
\* Indian exchange (in lower case), on an Indian exchange without adapters
\* (MCX) and on a recognized exchange that neither adapter set serves (AMS),
\* a second symbol on a US exchange, and two inputs that fail validation (a
\* symbol too long, an unknown exchange).
RawTickers ==
  { <<"A">>,
    <<"n","s","e",":","a">>,
    <<"M","C","X",":","A">>,
    <<"A","M","S",":","A">>,
    <<"N","A","S","D","A","Q",":","B">>,
    <<"A","B","C","D","E","F">>,
    <<"F","O","O",":","A">>}

\* Raw tickers on the Indian exchanges: one on each exchange with a suffix
\* mapping (NSE, BSE) and one on an exchange without (MCX)
IndianTickers ==
  { <<"n","s","e",":","a">>,
    <<"B","S","E",":","A">>,
    <<"M","C","X",":","A">>}

\* const tickerInfo = parseTicker(ticker), for each input
TickerInfo == [raw \in RawTickers \cup IndianTickers |-> parseTicker(raw)]

\* isValidTickerFormat(ticker), for each input
FormatOK == [raw \in RawTickers \cup IndianTickers |-> isValidTickerFormat(raw)]

\* Symbols of the inputs: the keys the cache is asked for
Keys == {TickerInfo[x].symbol : x \in RawTickers}

\* ------------------------------------------------------------------------
\* State
\* ------------------------------------------------------------------------
VARIABLES
  apiKey,       \* ALPHA_VANTAGE_API_KEY: "demo" or "real", fixed per process
  now,          \* Date.now()
  ticks,        \* clock advances so far
  started,      \* resolve calls started so far
  tickerCache,  \* symbol -> cache entry
  req,          \* the bag of GET calls in flight, and the call just answered
  lastResp,     \* the last response returned for an accepted ticker (history)
  parse,        \* parseTicker and isValidTickerFormat applied to one input
  kite,         \* the Kite positions and holdings endpoints
  screener      \* the screener endpoint and its screenerCache

vars ==
  <<apiKey, now, ticks, started, tickerCache, req, lastResp, parse, kite,
    screener>>

\* tickerCache entries: { valid, price?, timestamp }, or no entry for the key
NoEntry == [present |-> FALSE, valid |-> FALSE, price |-> Undefined, timestamp |-> 0]
Entry(valid, price, t) ==
  [present |-> TRUE, valid |-> valid, price |-> price, timestamp |-> t]

\* Responses of GET: status, body fields, and the return statement taken
NoResponse ==
  [status |-> 0, price |-> Undefined, source |-> "", ticker |-> <<>>,
   path |-> ""]
Response(status, price, source, ticker, path) ==
  [status |-> status, price |-> price, source |-> source, ticker |-> ticker,
   path |-> path]

\* History entry: a returned response, the ticker it answered and the time
NoHistory == [resp |-> NoResponse, ticker |-> <<>>, at |-> 0]

\* What a provider answered: the fetch resolved with a 2xx and JSON ("ok"),
\* resolved with a non-2xx status, rejected (network error, timeout), the body
\* was not JSON, or the adapter threw before fetching ("unsupported").
NoAnswer == [kind |-> "", field |-> Undefined, err |-> FALSE, info |-> FALSE]
Answer(kind, field, err, info) ==
  [kind |-> kind, field |-> field, err |-> err, info |-> info]

FailKinds == {"non2xx", "neterr", "unparsable"}

\* Answers to the direct GLOBAL_QUOTE request, in the shapes the provider
\* documents: a "Global Quote" with or without a "05. price" string, a body
\* with "Error Message", a body with "Information", or a failure.
DirectAnswers ==
  {Answer("ok", f, FALSE, FALSE) : f \in PriceFields}
    \cup {Answer("ok", Undefined, TRUE, FALSE), Answer("ok", Undefined, FALSE, TRUE)}
    \cup {Answer(k, Undefined, FALSE, FALSE) : k \in FailKinds}

\* Answers to an adapter's request: the provider's price property, a failure,
\* or the abort of the fetch by its AbortSignal.timeout
AdapterAnswers ==
  {Answer("ok", f, FALSE, FALSE) : f \in PriceFields}
    \cup {Answer(k, Undefined, FALSE, FALSE) : k \in FailKinds \cup {"timeout"}}

Threw == Answer("unsupported", Undefined, FALSE, FALSE)

\* The cache lookup a call made in its latest step: the entry and its age
NoLookup == [done |-> FALSE, hit |-> FALSE, key |-> <<>>, present |-> FALSE, age |-> 0]

\* A call at its entry (failure: with the history kept, the kind of answer
\* after which the loop went on to the adapter now awaited)
Idle ==
  [pc |-> "idle", raw |-> <<>>, route |-> "none", idx |-> 0,
   fetching |-> FALSE, calls |-> <<>>, fetches |-> <<>>,
   reads |-> {}, writes |-> {}, lookup |-> NoLookup,
   direct |-> NoAnswer, failure |-> "",
   resp |-> NoResponse, prev |-> NoResponse, since |-> 0]

\* parseTicker's result before it ran
NoInfo == [exchange |-> NoExchange, symbol |-> <<>>, fullTicker |-> <<>>]

\* The parser at work on an input: the input, how far GET got with it
\* ("input", "parsed", "validated", "reparsed"), tickerInfo,
\* isValidTickerFormat's result, and parseTicker's result for the ticker of
\* the response; NoParse while the model follows requests instead.
NoParse ==
  [phase |-> "none", input |-> <<>>, info |-> NoInfo, valid |-> FALSE,
   again |-> NoInfo]

\* Responses of the Kite endpoints: status, the flag property of an error
\* body (setup_required, token_expired, network_error, or details), success
\* and count of a success body
NoKiteResponse == [status |-> 0, flag |-> "", success |-> FALSE, count |-> 0]

\* What the awaited Kite call did: nothing yet, returned rows, or rejected
\* with an error whose message is a sequence of words (NoMessage: the error
\* has no message property)
NoMessage == <<"undefined">>
NoOutcome == [kind |-> "none", rows |-> 0, message |-> NoMessage]

\* The two route modules that talk to Kite
KiteEndpoints == {"positions", "holdings"}

\* One endpoint: its client's access token and its request at hand
KiteIdle ==
  [accessToken |-> FALSE, pc |-> "idle", outcome |-> NoOutcome,
   resp |-> NoKiteResponse]

\* The Kite endpoints: process.env (KITE_API_KEY and KITE_ACCESS_TOKEN set to
\* a non-empty string), the calls made to the Kite API, the requests served,
\* and each endpoint (requests to one endpoint follow each other, the two
\* endpoints work concurrently); NoKite while the model follows other
\* requests.
NoKite ==
  [env |-> [apiKey |-> FALSE, token |-> FALSE],
   apiCalls |-> 0, served |-> 0,
   at |-> [e \in KiteEndpoints |-> KiteIdle]]

\* screenerCache entries: { data: { marketCap?, sector?, error? }, timestamp }
NoScreenerData == [marketCap |-> Undefined, sector |-> "", error |-> ""]
NoScreenerEntry == [present |-> FALSE, data |-> NoScreenerData, timestamp |-> 0]

\* Responses of the screener endpoint
NoScreenerResponse ==
  [status |-> 0, success |-> FALSE, error |-> "", marketCap |-> Undefined,
   sector |-> "", source |-> ""]

\* The screener endpoint: its cache, the requests served, the request at
\* hand with the number of source requests it sent and whether it was
\* answered from the cache, and for each key the response of the request
\* that stored its entry; NoScreener while the model follows other requests.
NoScreener ==
  [cache |-> <<>>, served |-> 0, pc |-> "idle",
   ticker |-> <<>>, fetches |-> 0, hit |-> FALSE, at |-> 0,
   resp |-> NoScreenerResponse, stored |-> <<>>]

\* ------------------------------------------------------------------------
\* Adapters
\* ------------------------------------------------------------------------
\* The international adapters with the last two exchanged
validationMethods_Swapped ==
  <<"validateWithAlphaVantageDemo", "validateWithPolygonDemo",
    "validateWithYahooFinance">>

validationMethods ==
  <<"validateWithAlphaVantageDemo", "validateWithYahooFinance",
    "validateWithPolygonDemo">>

indianApis ==
  <<"fetchFromAlphaVantageIndian", "fetchFromYahooFinanceIndian",
    "fetchFromNSEAPI">>

Methods(route) == IF route = "indian" THEN indianApis ELSE validationMethods

\* Suffix with ".NS" for both exchanges
Suffix_NSOnly(exchange) ==
  IF exchange = NSE THEN <<".", "N", "S">>
  ELSE IF exchange = BSE THEN <<".", "N", "S">>
  ELSE <<>>

\* exchange === "NSE" ? ".NS" : exchange === "BSE" ? ".BO" : ""
Suffix(exchange) ==
  IF exchange = NSE THEN <<".", "N", "S">>
  ELSE IF exchange = BSE THEN <<".", "B", "O">>
  ELSE <<>>

\* The request an adapter sends for (ticker, exchange), or none when it throws
\* before fetching.
NoFetch == [by |-> "", host |-> "", symbol |-> <<>>, key |-> ""]
Fetch(by, host, symbol, key) ==
  [by |-> by, host |-> host, symbol |-> symbol, key |-> key]

AdapterFetch(method, ticker, exchange, envKey) ==
  CASE method = "validateWithAlphaVantageDemo" ->
         Fetch(method, "alphavantage", ticker, "demo")
    [] method = "validateWithYahooFinance" ->
         Fetch(method, "yahoo", ticker, "")
    [] method = "validateWithPolygonDemo" ->
         Fetch(method, "polygon", ticker, "demo")
    [] method = "fetchFromAlphaVantageIndian" ->
         IF Suffix(exchange) = <<>> THEN NoFetch
         ELSE Fetch(method, "alphavantage", ticker \o Suffix(exchange), envKey)
    [] method = "fetchFromYahooFinanceIndian" ->
         IF Suffix(exchange) = <<>> THEN NoFetch
         ELSE Fetch(method, "yahoo", ticker \o Suffix(exchange), "")
    [] method = "fetchFromNSEAPI" ->
         IF exchange # NSE THEN NoFetch
         ELSE Fetch(method, "nseindia", ticker, "")

\* AbortSignal.timeout(ms) of the request a function sends, or NoTimeout when
\* its fetch is given no signal ("GET": the direct request).
NoTimeout == 0
Timeout(by) ==
  CASE by = "GET" -> NoTimeout
    [] by = "validateWithAlphaVantageDemo" -> NoTimeout
    [] by = "validateWithYahooFinance" -> 3000
    [] by = "validateWithPolygonDemo" -> 3000
    [] by = "fetchFromAlphaVantageIndian" -> 5000
    [] by = "fetchFromYahooFinanceIndian" -> 5000
    [] by = "fetchFromNSEAPI" -> 5000

SourceName(method) ==
  CASE method = "validateWithAlphaVantageDemo" -> "Alpha Vantage Demo"
    [] method = "validateWithYahooFinance" -> "Yahoo Finance"
    [] method = "validateWithPolygonDemo" -> "Polygon Demo"
    [] method = "fetchFromAlphaVantageIndian" -> "Alpha Vantage India"
    [] method = "fetchFromYahooFinanceIndian" -> "Yahoo Finance India"
    [] method = "fetchFromNSEAPI" -> "NSE API"

\* Adapters that read the price from a string with parseFloat after testing
\* the string's truthiness; the others test and return a number.
StringPriced(method) ==
  method \in {"validateWithAlphaVantageDemo", "fetchFromAlphaVantageIndian"}

\* The adapter's result for an answer: { valid: true, price, source }, or it
\* throws (valid FALSE here).
AdapterResult(method, a) ==
  IF a.kind = "ok"
     /\ (IF StringPriced(method) THEN TruthyString(a.field) ELSE Truthy(a.field))
  THEN [valid |-> TRUE, price |-> a.field, source |-> SourceName(method)]
  ELSE [valid |-> FALSE, price |-> Undefined, source |-> ""]

\* The success test of the loop over the adapters of a route
LoopAccepts(route, result) ==
  IF route = "indian" THEN result.valid /\ Truthy(result.price)
  ELSE result.valid

\* ------------------------------------------------------------------------
\* The handler, between two awaits
\* ------------------------------------------------------------------------
\* NextResponse.json(...): the call returns
Respond(rq, status, price, source, path) ==
  [rq EXCEPT !.pc = "done",
             !.resp = Response(status, price, source,
                               IF status = 200
                               THEN TickerInfo[rq.raw].fullTicker ELSE <<>>,
                               path)]

\* GET's use of validateTickerDynamically's result
FromValidation(rq, result, path, envKey) ==
  IF ~result.valid
  THEN Respond(rq, 404, Undefined, "", path)
  ELSE Respond(rq, 200, result.price,
               IF result.source # "" THEN result.source
               ELSE IF envKey # "demo" THEN "Fallback Validation"
               ELSE "Dynamic Validation",
               path)

\* Invoke where the i-th adapter and the one after it are called together and
\* the loop awaits the i-th
Invoke_Racing(rq, route, i, envKey) ==
  LET p == TickerInfo[rq.raw]
      ms == Methods(route)
      js == IF i < Len(ms) THEN <<i, i + 1>> ELSE <<i>>
      fs == [j \in 1..Len(js) |->
               AdapterFetch(ms[js[j]], p.symbol, p.exchange, envKey)]
  IN  [rq EXCEPT !.pc = "adapter", !.route = route, !.idx = i,
                 !.fetching = (fs[1] # NoFetch),
                 !.calls = @ \o [j \in 1..Len(js) |->
                                   [method |-> ms[js[j]], result |-> "pending"]],
                 !.fetches = @ \o SelectSeq(fs, LAMBDA f : f # NoFetch)]

\* `await method()` for the i-th adapter of the route: the adapter runs up to
\* its fetch (or throws before it) and the request suspends.
Invoke(rq, route, i, envKey) ==
  LET p == TickerInfo[rq.raw]
      m == Methods(route)[i]
      f == AdapterFetch(m, p.symbol, p.exchange, envKey)
  IN  [rq EXCEPT !.pc = "adapter", !.route = route, !.idx = i,
                 !.fetching = (f # NoFetch),
                 !.calls = Append(@, [method |-> m, result |-> "pending"]),
                 !.fetches = IF f # NoFetch THEN Append(@, f) ELSE @]

\* The expiry test with <= in place of <
CacheHit_Inclusive(cached, t) ==
  cached.present /\ t - cached.timestamp <= CACHE_DURATION

\* tickerCache.get(ticker) with the expiry test
CacheHit(cached, t) == cached.present /\ t - cached.timestamp < CACHE_DURATION

\* validateTickerDynamically(symbol, exchange) up to its first await (which
\* falls into validateIndianStock for the exchanges the international APIs do
\* not serve), and GET's use of the result when it returns without awaiting.
Dynamic(rq, cache, t, envKey) ==
  LET p == TickerInfo[rq.raw]
      cached == cache[p.symbol]
      rq1 == [rq EXCEPT !.reads = @ \cup {p.symbol},
                        !.lookup = [done |-> TRUE, hit |-> CacheHit(cached, t),
                                    key |-> p.symbol,
                                    present |-> cached.present,
                                    age |-> IF cached.present
                                            THEN t - cached.timestamp ELSE 0]]
  IN  IF CacheHit(cached, t)
      THEN FromValidation(rq1, [valid |-> cached.valid, price |-> cached.price,
                                source |-> "cache"], "cacheHit", envKey)
      ELSE IF ~isInternationalApiSupported(p.exchange)
      THEN IF ~ExchangeGiven(p.exchange) \/ p.exchange \notin indianExchanges
           THEN FromValidation(rq1, [valid |-> FALSE, price |-> Undefined,
                                     source |-> ""], "unsupported", envKey)
           ELSE Invoke(rq1, "indian", 1, envKey)
      ELSE Invoke(rq1, "intl", 1, envKey)

\* History: the last response returned for an accepted ticker
Record(rq, last, t, h) ==
  IF h /\ rq.pc = "done" /\ FormatOK[rq.raw]
  THEN [resp |-> rq.resp, ticker |-> TickerInfo[rq.raw].fullTicker, at |-> t]
  ELSE last

\* ------------------------------------------------------------------------
\* Actions
\* ------------------------------------------------------------------------
Init ==
  /\ apiKey \in {"demo", "real"}
  /\ now = 0
  /\ ticks = 0
  /\ started = 0
  /\ tickerCache = [k \in Keys |-> NoEntry]
  /\ req = EmptyBag
  /\ lastResp = NoHistory
  /\ parse = NoParse
  /\ kite = NoKite
  /\ screener = NoScreener

\* Handler with the validation moved after the choice of the key path
Handler_ValidateLate(rq, cache, t, envKey) ==
  LET p == TickerInfo[rq.raw] IN
  IF envKey # "demo"
  THEN [rq EXCEPT !.pc = "direct",
                  !.fetches = <<Fetch("GET", "alphavantage", p.symbol, envKey)>>]
  ELSE IF ~FormatOK[rq.raw]
  THEN Respond(rq, 400, Undefined, "", "invalidFormat")
  ELSE Dynamic(rq, cache, t, envKey)

\* GET from its entry to its first await: parseTicker, isValidTickerFormat,
\* then the direct request with a real key, or validateTickerDynamically.
Handler(rq, cache, t, envKey) ==
  LET p == TickerInfo[rq.raw] IN
  IF ~FormatOK[rq.raw]
  THEN Respond(rq, 400, Undefined, "", "invalidFormat")
  ELSE IF envKey # "demo"
  THEN [rq EXCEPT !.pc = "direct",
                  !.fetches = <<Fetch("GET", "alphavantage", p.symbol, envKey)>>]
  ELSE Dynamic(rq, cache, t, envKey)

\* AfterDirect where an "Error Message" body falls back like any failure
AfterDirect_NoShortCircuit(rq, a, cache, t, envKey) ==
  IF a.kind = "ok" /\ TruthyString(a.field)
  THEN Respond(rq, 200, a.field, "Alpha Vantage", "direct")
  ELSE IF a.kind = "ok" /\ a.info
  THEN Respond(rq, 429, Undefined, "", "directRateLimited")
  ELSE Dynamic(rq, cache, t, envKey)

\* AfterDirect where a rejected fetch is not caught by the inner try
AfterDirect_ThrowEscapes(rq, a, cache, t, envKey) ==
  IF a.kind = "ok" /\ TruthyString(a.field)
  THEN Respond(rq, 200, a.field, "Alpha Vantage", "direct")
  ELSE IF a.kind = "ok" /\ a.err
  THEN Respond(rq, 404, Undefined, "", "directNotFound")
  ELSE IF a.kind = "ok" /\ a.info
  THEN Respond(rq, 429, Undefined, "", "directRateLimited")
  ELSE IF a.kind = "neterr"
  THEN Respond(rq, 500, Undefined, "", "exception")
  ELSE Dynamic(rq, cache, t, envKey)

\* AfterDirect without a try around the direct request: a rejected fetch, a
\* non-2xx status or an unparsable body rejects the promise GET returned, and
\* no response is produced
AfterDirect_Uncaught(rq, a, cache, t, envKey) ==
  IF a.kind = "ok" /\ TruthyString(a.field)
  THEN Respond(rq, 200, a.field, "Alpha Vantage", "direct")
  ELSE IF a.kind = "ok" /\ a.err
  THEN Respond(rq, 404, Undefined, "", "directNotFound")
  ELSE IF a.kind = "ok" /\ a.info
  THEN Respond(rq, 429, Undefined, "", "directRateLimited")
  ELSE IF a.kind # "ok"
  THEN [rq EXCEPT !.pc = "done", !.resp = [NoResponse EXCEPT !.path = "uncaught"]]
  ELSE Dynamic(rq, cache, t, envKey)

\* GET after the direct request settled with answer a, to its next await
AfterDirect(rq, a, cache, t, envKey) ==
  IF a.kind = "ok" /\ TruthyString(a.field)
  THEN Respond(rq, 200, a.field, "Alpha Vantage", "direct")
  ELSE IF a.kind = "ok" /\ a.err
  THEN Respond(rq, 404, Undefined, "", "directNotFound")
  ELSE IF a.kind = "ok" /\ a.info
  THEN Respond(rq, 429, Undefined, "", "directRateLimited")
  ELSE Dynamic(rq, cache, t, envKey)

\* CacheSet that updates the properties it is given and keeps the others of
\* the entry already there (a failure leaves the price of an earlier success)
CacheSet_Merge(cache, key, valid, price, t) ==
  [cache EXCEPT ![key] = Entry(valid,
                               IF price # Undefined THEN price ELSE @.price, t)]

\* tickerCache.set(ticker, { valid, price, timestamp: Date.now() })
CacheSet(cache, key, valid, price, t) ==
  [cache EXCEPT ![key] = Entry(valid, price, t)]

\* LoopTurn where a timeout of an adapter's fetch ends the resolution as failed
LoopTurn_TimeoutFatal(rq, a, cache, t, envKey) ==
  LET p == TickerInfo[rq.raw]
      m == Methods(rq.route)[rq.idx]
      result == AdapterResult(m, a)
      accepted == LoopAccepts(rq.route, result)
      rq1 == [rq EXCEPT !.direct = NoAnswer, !.lookup = NoLookup,
                        !.fetching = FALSE,
                        !.calls[rq.idx].result =
                            IF accepted THEN "ok" ELSE "fail"]
  IN  IF accepted
      THEN [rq |-> FromValidation([rq1 EXCEPT !.writes = @ \cup {p.symbol}],
                                  result, "adapter", envKey),
            cache |-> CacheSet(cache, p.symbol, TRUE, result.price, t)]
      ELSE IF rq.idx < Len(Methods(rq.route)) /\ a.kind # "timeout"
      THEN [rq |-> Invoke(rq1, rq.route, rq.idx + 1, envKey), cache |-> cache]
      ELSE [rq |-> FromValidation([rq1 EXCEPT !.writes = @ \cup {p.symbol}],
                                  [valid |-> FALSE, price |-> Undefined,
                                   source |-> ""], "allFailed", envKey),
            cache |-> CacheSet(cache, p.symbol, FALSE, Undefined, t)]

\* One turn of the loop over the route's adapters, after the awaited adapter
\* settled with answer a: the request and the cache afterwards.
LoopTurn(rq, a, cache, t, envKey) ==
  LET p == TickerInfo[rq.raw]
      m == Methods(rq.route)[rq.idx]
      result == AdapterResult(m, a)
      accepted == LoopAccepts(rq.route, result)
      rq1 == [rq EXCEPT !.direct = NoAnswer, !.lookup = NoLookup,
                        !.fetching = FALSE,
                        !.calls[rq.idx].result =
                            IF accepted THEN "ok" ELSE "fail"]
  IN  IF accepted
      THEN [rq |-> FromValidation([rq1 EXCEPT !.writes = @ \cup {p.symbol}],
                                  result, "adapter", envKey),
            cache |-> CacheSet(cache, p.symbol, TRUE, result.price, t)]
      ELSE IF rq.idx < Len(Methods(rq.route))
      THEN [rq |-> Invoke(rq1, rq.route, rq.idx + 1, envKey), cache |-> cache]
      ELSE [rq |-> FromValidation([rq1 EXCEPT !.writes = @ \cup {p.symbol}],
                                  [valid |-> FALSE, price |-> Undefined,
                                   source |-> ""], "allFailed", envKey),
            cache |-> CacheSet(cache, p.symbol, FALSE, Undefined, t)]

\* The calls in flight: a call answered by the previous step has returned.
InFlight == req (-) [rq \in {x \in BagToSet(req) : x.pc = "done"} |-> req[rq]]

\* The bag of calls with one call replaced by its next state
Step(rq, rq2) == (InFlight (-) SetToBag({rq})) (+) SetToBag({rq2})

\* GET is called with params.ticker = raw while fewer than cap calls are in
\* flight (h: the history is kept).
Start(raw, h, cap) ==
  /\ BagCardinality(InFlight) < cap
  /\ started < MaxCalls
  /\ started' = started + 1
  /\ LET again == /\ lastResp.resp.status # 0
                  /\ lastResp.ticker = TickerInfo[raw].fullTicker
         rq0 == [Idle EXCEPT !.raw = raw,
                             !.prev = IF again THEN lastResp.resp ELSE NoResponse,
                             !.since = IF again THEN now - lastResp.at ELSE 0]
         rq2 == Handler(rq0, tickerCache, now, apiKey)
     IN  /\ req' = InFlight (+) SetToBag({rq2})
         /\ lastResp' = Record(rq2, lastResp, now, h)
  /\ UNCHANGED <<apiKey, now, ticks, tickerCache, parse, kite, screener>>

\* DirectReturn where a quote of the direct request is stored in the cache
DirectReturn_Caching(rq, a, h) ==
  /\ BagIn(rq, req)
  /\ rq.pc = "direct"
  /\ LET rq2 == AfterDirect([rq EXCEPT !.direct = a], a,
                            tickerCache, now, apiKey)
     IN  /\ req' = Step(rq, rq2)
         /\ tickerCache' =
              IF rq2.resp.path = "direct"
              THEN CacheSet(tickerCache, TickerInfo[rq.raw].symbol, TRUE,
                            rq2.resp.price, now)
              ELSE tickerCache
         /\ lastResp' = Record(rq2, lastResp, now, h)
  /\ UNCHANGED <<apiKey, now, ticks, started, parse, kite, screener>>

\* The direct request with the real key is answered.
DirectReturn(rq, a, h) ==
  /\ BagIn(rq, req)
  /\ rq.pc = "direct"
  /\ LET rq2 == AfterDirect([rq EXCEPT !.direct = a], a,
                            tickerCache, now, apiKey)
     IN  /\ req' = Step(rq, rq2)
         /\ lastResp' = Record(rq2, lastResp, now, h)
  /\ UNCHANGED <<apiKey, now, ticks, started, tickerCache, parse, kite, screener>>

\* The awaited adapter settles.
AdapterReturn(rq, a, h) ==
  /\ BagIn(rq, req)
  /\ rq.pc = "adapter"
  /\ IF rq.fetching THEN a \in AdapterAnswers ELSE a = Threw
  /\ a.kind = "timeout" => Timeout(Methods(rq.route)[rq.idx]) # NoTimeout
  /\ LET out == LoopTurn(rq, a, tickerCache, now, apiKey)
         rq2 == IF h /\ out.rq.pc = "adapter"
                THEN [out.rq EXCEPT !.failure = a.kind]
                ELSE [out.rq EXCEPT !.failure = ""]
     IN  /\ req' = Step(rq, rq2)
         /\ tickerCache' = out.cache
         /\ lastResp' = Record(rq2, lastResp, now, h)
  /\ UNCHANGED <<apiKey, now, ticks, started, parse, kite, screener>>

\* Time passes.
Tick(d) ==
  /\ ticks < MaxTicks
  /\ ticks' = ticks + 1
  /\ now' = now + d
  /\ req' = InFlight
  /\ UNCHANGED <<apiKey, started, tickerCache, lastResp, parse, kite, screener>>

Calls == BagToSet(req)

\* Concurrent requests; the history is not kept.
Next ==
  \/ \E raw \in RawTickers : Start(raw, FALSE, NumReq)
  \/ \E rq \in Calls, a \in DirectAnswers : DirectReturn(rq, a, FALSE)
  \/ \E rq \in Calls, a \in AdapterAnswers \cup {Threw} : AdapterReturn(rq, a, FALSE)
  \/ \E d \in Ticks : Tick(d)

Spec == Init /\ [][Next]_vars

\* One request after the other, with the history of the last response.
NextHist ==
  \/ \E raw \in RawTickers : Start(raw, TRUE, 1)
  \/ \E rq \in Calls, a \in DirectAnswers : DirectReturn(rq, a, TRUE)
  \/ \E rq \in Calls, a \in AdapterAnswers \cup {Threw} : AdapterReturn(rq, a, TRUE)
  \/ \E d \in Ticks : Tick(d)

SpecHist == Init /\ [][NextHist]_vars

\* Concurrent requests for tickers on the Indian exchanges.
NextIndian ==
  \/ \E raw \in IndianTickers : Start(raw, FALSE, NumReq)
  \/ \E rq \in Calls, a \in DirectAnswers : DirectReturn(rq, a, FALSE)
  \/ \E rq \in Calls, a \in AdapterAnswers \cup {Threw} : AdapterReturn(rq, a, FALSE)
  \/ \E d \in Ticks : Tick(d)

SpecIndian == Init /\ [][NextIndian]_vars

\* The await a call is suspended at settles within a bound: the adapter threw
\* before fetching, or its fetch carries a timeout.
TimeBoxed(rq) ==
  /\ rq.pc = "adapter"
  /\ (~rq.fetching \/ Timeout(Methods(rq.route)[rq.idx]) # NoTimeout)

\* A time-boxed await settles.
TimeBoxedReturn ==
  \E rq \in Calls, a \in AdapterAnswers \cup {Threw} :
    TimeBoxed(rq) /\ AdapterReturn(rq, a, FALSE)

\* Concurrent requests where a provider may never answer: only the awaits
\* that are time-boxed are sure to settle.
SpecLive == Init /\ [][Next]_vars /\ WF_vars(TimeBoxedReturn)

\* ------------------------------------------------------------------------
\* The parser on its own
\* ------------------------------------------------------------------------
\* Pieces the inputs are made of: an Indian exchange, a recognized exchange in
\* lower case, a name that is no exchange, six letters, one letter, the
\* separator, a blank and a digit.
Tokens ==
  { <<"N","S","E">>, <<"a","m","s">>, <<"F","O","O">>,
    <<"A","B","C","D","E","F">>, <<"A">>, <<":">>, <<" ">>, <<"1">> }

RECURSIVE Concat(_)
Concat(ts) == IF ts = <<>> THEN <<>> ELSE Head(ts) \o Concat(Tail(ts))

\* params.ticker: every string of 1..MaxTokens tokens
Inputs ==
  {Concat(ts) : ts \in UNION {[1..n -> Tokens] : n \in 1..MaxTokens}}

InitParse ==
  /\ apiKey = "demo"
  /\ now = 0
  /\ ticks = 0
  /\ started = 0
  /\ tickerCache = [k \in Keys |-> NoEntry]
  /\ req = EmptyBag
  /\ lastResp = NoHistory
  /\ parse \in {[NoParse EXCEPT !.phase = "input", !.input = i] : i \in Inputs}
  /\ kite = NoKite
  /\ screener = NoScreener

\* const tickerInfo = parseTicker(ticker)
ParseTicker ==
  /\ parse.phase = "input"
  /\ parse' = [parse EXCEPT !.phase = "parsed", !.info = parseTicker(parse.input)]
  /\ UNCHANGED <<apiKey, now, ticks, started, tickerCache, req, lastResp,
                 kite, screener>>

\* isValidTickerFormat(ticker)
Validate ==
  /\ parse.phase = "parsed"
  /\ parse' = [parse EXCEPT !.phase = "validated",
                            !.valid = isValidTickerFormat(parse.input)]
  /\ UNCHANGED <<apiKey, now, ticks, started, tickerCache, req, lastResp,
                 kite, screener>>

\* The ticker of a response (tickerInfo.fullTicker) is sent as params.ticker
\* of a new request: parseTicker runs on it.
Reparse ==
  /\ parse.phase = "validated"
  /\ parse.valid
  /\ parse' = [parse EXCEPT !.phase = "reparsed",
                            !.again = parseTicker(parse.info.fullTicker)]
  /\ UNCHANGED <<apiKey, now, ticks, started, tickerCache, req, lastResp,
                 kite, screener>>

NextParse == ParseTicker \/ Validate \/ Reparse

SpecParse == InitParse /\ [][NextParse]_vars

\* ------------------------------------------------------------------------
\* The Kite positions and holdings endpoints
\* ------------------------------------------------------------------------
\* Messages of the errors the awaited Kite call rejects with
KiteMessages ==
  { <<"TokenException", "expired">>,
    <<"NetworkException">>,
    <<"NetworkException", "after", "TokenException">>,
    <<"timeout">>,
    NoMessage }

\* error.message?.includes(word)
MessageIncludes(message, word) ==
  message # NoMessage /\ \E i \in 1..Len(message) : message[i] = word

\* The catch block with the two tests exchanged
KiteCatch_NetworkFirst(message) ==
  IF MessageIncludes(message, "NetworkException")
  THEN [status |-> 503, flag |-> "network_error", success |-> FALSE, count |-> 0]
  ELSE IF MessageIncludes(message, "TokenException")
  THEN [status |-> 401, flag |-> "token_expired", success |-> FALSE, count |-> 0]
  ELSE [status |-> 500, flag |-> "details", success |-> FALSE, count |-> 0]

\* The catch block of both handlers
KiteCatch(message) ==
  IF MessageIncludes(message, "TokenException")
  THEN [status |-> 401, flag |-> "token_expired", success |-> FALSE, count |-> 0]
  ELSE IF MessageIncludes(message, "NetworkException")
  THEN [status |-> 503, flag |-> "network_error", success |-> FALSE, count |-> 0]
  ELSE [status |-> 500, flag |-> "details", success |-> FALSE, count |-> 0]

\* The value the Kite call returned is not what the handler maps over (null):
\* the TypeError it throws has a message without either word.
Malformed == 0 - 1
TypeErrorMessage == <<"Cannot", "read", "properties", "of", "null">>

InitKite ==
  /\ apiKey = "demo"
  /\ now = 0
  /\ ticks = 0
  /\ started = 0
  /\ tickerCache = [k \in Keys |-> NoEntry]
  /\ req = EmptyBag
  /\ lastResp = NoHistory
  /\ parse = NoParse
  /\ kite \in {[NoKite EXCEPT !.env = [apiKey |-> k, token |-> t]] :
                 k \in BOOLEAN, t \in BOOLEAN}
  /\ screener = NoScreener

\* GET of an endpoint up to its await: the credentials test, setAccessToken,
\* and the call of kite.getPositions() or kite.getHoldings()
KiteGet(endpoint) ==
  /\ kite.at[endpoint].pc \in {"idle", "done"}
  /\ kite.served < MaxKiteReq
  /\ kite' =
       IF ~kite.env.apiKey \/ ~kite.env.token
       THEN [kite EXCEPT !.served = @ + 1,
                         !.at[endpoint].pc = "done",
                         !.at[endpoint].outcome = NoOutcome,
                         !.at[endpoint].resp =
                            [status |-> 400, flag |-> "setup_required",
                             success |-> FALSE, count |-> 0]]
       ELSE [kite EXCEPT !.served = @ + 1, !.apiCalls = @ + 1,
                         !.at[endpoint].pc = "await",
                         !.at[endpoint].outcome = NoOutcome,
                         !.at[endpoint].accessToken = TRUE,
                         !.at[endpoint].resp = NoKiteResponse]
  /\ UNCHANGED <<apiKey, now, ticks, started, tickerCache, req, lastResp,
                 parse, screener>>

\* The Kite call of an endpoint returns rows (or a value that is no list of
\* rows).
KiteReturn(endpoint, rows) ==
  /\ kite.at[endpoint].pc = "await"
  /\ kite' =
       [kite EXCEPT !.at[endpoint].pc = "done",
                    !.at[endpoint].outcome =
                       [kind |-> "returned", rows |-> rows,
                        message |-> NoMessage],
                    !.at[endpoint].resp =
                       IF rows = Malformed
                       THEN KiteCatch(TypeErrorMessage)
                       ELSE [status |-> 200, flag |-> "",
                             success |-> TRUE, count |-> rows]]
  /\ UNCHANGED <<apiKey, now, ticks, started, tickerCache, req, lastResp,
                 parse, screener>>

\* The Kite call of an endpoint rejects.
KiteReject(endpoint, message) ==
  /\ kite.at[endpoint].pc = "await"
  /\ kite' =
       [kite EXCEPT !.at[endpoint].pc = "done",
                    !.at[endpoint].outcome =
                       [kind |-> "rejected", rows |-> 0, message |-> message],
                    !.at[endpoint].resp = KiteCatch(message)]
  /\ UNCHANGED <<apiKey, now, ticks, started, tickerCache, req, lastResp,
                 parse, screener>>

NextKite ==
  \/ \E e \in KiteEndpoints : KiteGet(e)
  \/ \E e \in KiteEndpoints, n \in {Malformed} \cup 0..MaxRows : KiteReturn(e, n)
  \/ \E e \in KiteEndpoints, m \in KiteMessages : KiteReject(e, m)

SpecKite == InitKite /\ [][NextKite]_vars

\* ------------------------------------------------------------------------
\* The screener endpoint
\* ------------------------------------------------------------------------
SCREENER_CACHE_DURATION == 24 * 60 * 60 * 1000

\* Clock advances (ms): one millisecond short of 24 hours, and 24 hours
ScreenerTicks == {SCREENER_CACHE_DURATION - 1, SCREENER_CACHE_DURATION}

\* JSON null
Null == 0 - 3

ToLowerChar(c) ==
  IF \E i \in 1..26 : UpperLetters[i] = c
  THEN LowerLetters[CHOOSE i \in 1..26 : UpperLetters[i] = c]
  ELSE c

\* String.prototype.toLowerCase
ToLowerCase(s) == [i \in 1..Len(s) |-> ToLowerChar(s[i])]

\* params.ticker of the requests
ScreenerTickers ==
  { <<"A">>, <<"a">>, <<"N","S","E",":","A">>, <<"B">> }

\* ticker.includes(":") ? ticker.split(":")[1] : ticker
ScreenerSymbol(ticker) ==
  IF Includes(ticker, ":") THEN Split(ticker, ":")[2] ELSE ticker

\* const cacheKey = symbol.toLowerCase()
CacheKey(ticker) == ToLowerCase(ScreenerSymbol(ticker))

ScreenerKeys == {CacheKey(t) : t \in ScreenerTickers}

\* What a source answered: a 2xx with JSON ("ok": the market capitalisation
\* and sector properties; found: the alternative source's body has a quote)
\* or a failure of the fetch, the status or the parse
SourceAnswers ==
  {[kind |-> "ok", found |-> f, marketCap |-> m, sector |-> x] :
      f \in BOOLEAN, m \in {Undefined, 1}, x \in {"", "Energy"}}
    \cup {[kind |-> "fail", found |-> FALSE, marketCap |-> Undefined, sector |-> ""]}

fetchFromScreener(a) ==
  IF a.kind = "ok"
  THEN [marketCap |-> IF Truthy(a.marketCap) THEN a.marketCap ELSE Undefined,
        sector |-> a.sector, error |-> ""]
  ELSE [marketCap |-> Undefined, sector |-> "",
        error |-> "Failed to fetch data from Screener.in"]

fetchFromAlternativeSource(a) ==
  IF a.kind = "ok"
  THEN IF a.found
       THEN [marketCap |-> a.marketCap, sector |-> a.sector, error |-> ""]
       ELSE [marketCap |-> Undefined, sector |-> "", error |-> "No data found"]
  ELSE [marketCap |-> Undefined, sector |-> "",
        error |-> "Alternative source failed"]

\* The response for a cache hit: { success: true, symbol, ...cached.data,
\* source: "cache" }
ScreenerHit(data) ==
  [status |-> 200, success |-> TRUE, error |-> data.error,
   marketCap |-> data.marketCap, sector |-> data.sector, source |-> "cache"]

\* The response for a result of the sources
ScreenerResponse(result) ==
  IF result.error # ""
  THEN [status |-> 404, success |-> FALSE, error |-> result.error,
        marketCap |-> Null, sector |-> "Unknown", source |-> ""]
  ELSE [status |-> 200, success |-> TRUE, error |-> "",
        marketCap |-> IF Truthy(result.marketCap) THEN result.marketCap ELSE Null,
        sector |-> IF result.sector # "" THEN result.sector ELSE "Unknown",
        source |-> "screener"]

\* screenerCache.set(cacheKey, { data: result, timestamp: Date.now() }) and
\* the response
ScreenerFinish(sc, result, t) ==
  LET key == CacheKey(sc.ticker) IN
  [sc EXCEPT !.pc = "done", !.at = t,
             !.cache[key] = [present |-> TRUE, data |-> result, timestamp |-> t],
             !.resp = ScreenerResponse(result),
             !.stored[key] = ScreenerResponse(result)]

InitScreener ==
  /\ apiKey = "demo"
  /\ now = 0
  /\ ticks = 0
  /\ started = 0
  /\ tickerCache = [k \in Keys |-> NoEntry]
  /\ req = EmptyBag
  /\ lastResp = NoHistory
  /\ parse = NoParse
  /\ kite = NoKite
  /\ screener = [NoScreener EXCEPT
                   !.cache = [k \in ScreenerKeys |-> NoScreenerEntry],
                   !.stored = [k \in ScreenerKeys |-> NoScreenerResponse]]

\* GET up to its first await: the cache lookup, then fetchFromScreener
ScreenerGet(ticker) ==
  /\ screener.pc \in {"idle", "done"}
  /\ screener.served < MaxScreenerReq
  /\ LET cached == screener.cache[CacheKey(ticker)]
         sc == [screener EXCEPT !.served = @ + 1, !.ticker = ticker,
                                !.fetches = 0, !.at = now]
     IN  screener' =
           IF cached.present /\ now - cached.timestamp < SCREENER_CACHE_DURATION
           THEN [sc EXCEPT !.pc = "done", !.hit = TRUE,
                           !.resp = ScreenerHit(cached.data)]
           ELSE [sc EXCEPT !.pc = "screener", !.hit = FALSE, !.fetches = 1,
                           !.resp = NoScreenerResponse]
  /\ UNCHANGED <<apiKey, now, ticks, started, tickerCache, req, lastResp,
                 parse, kite>>

\* fetchFromScreener settles: on an error the alternative source is asked.
ScreenerReturn(a) ==
  /\ screener.pc = "screener"
  /\ LET result == fetchFromScreener(a) IN
     screener' =
       IF result.error # ""
       THEN [screener EXCEPT !.pc = "alternative", !.fetches = 2]
       ELSE ScreenerFinish(screener, result, now)
  /\ UNCHANGED <<apiKey, now, ticks, started, tickerCache, req, lastResp,
                 parse, kite>>

\* fetchFromAlternativeSource settles.
AlternativeReturn(a) ==
  /\ screener.pc = "alternative"
  /\ screener' = ScreenerFinish(screener, fetchFromAlternativeSource(a), now)
  /\ UNCHANGED <<apiKey, now, ticks, started, tickerCache, req, lastResp,
                 parse, kite>>

NextScreener ==
  \/ \E t \in ScreenerTickers : ScreenerGet(t)
  \/ \E a \in SourceAnswers : ScreenerReturn(a)
  \/ \E a \in SourceAnswers : AlternativeReturn(a)
  \/ \E d \in ScreenerTicks : Tick(d)

SpecScreener == InitScreener /\ [][NextScreener]_vars

\* ------------------------------------------------------------------------
\* Properties
\* ------------------------------------------------------------------------
Parsed(rq) == TickerInfo[rq.raw]
Done(rq) == rq.pc = "done"

\* The input fails validation: the symbol is not 1..5 capital letters (1..10
\* on an Indian exchange), or a given exchange is not a recognized one.
FailsFormat(raw) ==
  LET p == parseTicker(raw) IN
  \/ ~(\E n \in 1..(IF p.exchange \in {NSE, BSE, MCX, NCDEX, ICEX} THEN 10 ELSE 5) :
          Len(p.symbol) = n /\ \A i \in 1..n : IsUpperLetter(p.symbol[i]))
  \/ (p.exchange # NoExchange /\ p.exchange # <<>>
        /\ p.exchange \notin validExchanges)

Rejected == [raw \in RawTickers \cup IndianTickers |-> FailsFormat(raw)]

C2_CacheRoundTrip ==
  \A r \in Calls :
    (Done(r) /\ r.prev.status = 200 /\ r.since < 5 * 60 * 1000) =>
      /\ r.resp.status = 200
      /\ r.resp.price = r.prev.price
      /\ r.resp.source = r.prev.source
      /\ r.fetches = <<>>

\* C3: on the international route the adapters are invoked in the order
\* Alpha Vantage demo, Yahoo Finance, Polygon demo, each at most once, an
\* adapter only after all before it failed in this call, none after a
\* success; a quote from an adapter carries that adapter's source name.
C3_IntlOrder ==
  LET order == <<"validateWithAlphaVantageDemo", "validateWithYahooFinance",
                 "validateWithPolygonDemo">>
      name == <<"Alpha Vantage Demo", "Yahoo Finance", "Polygon Demo">>
  IN  \A r \in Calls :
        (~Rejected[r.raw]
           /\ (Parsed(r).exchange = NoExchange
                 \/ Parsed(r).exchange \in internationalExchanges)) =>
          LET calls == r.calls
              n == Len(calls)
          IN  /\ n <= 3
              /\ \A i \in 1..n : calls[i].method = order[i]
              /\ \A i \in 1..(n - 1) : calls[i].result = "fail"
              /\ (n > 0 /\ calls[n].result = "pending") <=> r.pc = "adapter"
              /\ (n > 0 /\ calls[n].result = "ok") =>
                   /\ Done(r)
                   /\ r.resp.status = 200
                   /\ r.resp.source = name[n]
              /\ (Done(r) /\ n > 0 /\ calls[n].result = "fail") =>
                   /\ n = 3
                   /\ r.resp.status # 200

\* Source A failed, Source B succeeded: B's quote is returned, C not invoked.
C3_Witness ==
  \E r \in Calls :
    /\ Done(r)
    /\ r.calls = <<[method |-> "validateWithAlphaVantageDemo", result |-> "fail"],
                        [method |-> "validateWithYahooFinance", result |-> "ok"]>>
    /\ r.resp.status = 200
    /\ r.resp.source = "Yahoo Finance"

\* C4 (as claimed): a call for a ticker on an Indian exchange sends provider
\* requests only from the three Indian adapters, in any key configuration.
C4_IndianRouting ==
  \A r \in Calls :
    (~Rejected[r.raw]
       /\ Parsed(r).exchange \in {NSE, BSE, MCX, NCDEX, ICEX}) =>
      \A i \in 1..Len(r.fetches) :
        r.fetches[i].by \in
          {"fetchFromAlphaVantageIndian", "fetchFromYahooFinanceIndian",
           "fetchFromNSEAPI"}

\* C5 (as claimed): a call reads and writes only the cache entry whose key is
\* the canonical form (EXCHANGE:SYMBOL or SYMBOL) of its ticker.
C5_CanonicalKey ==
  \A r \in Calls :
    ~Rejected[r.raw] =>
      r.reads \cup r.writes \subseteq {Parsed(r).fullTicker}

\* C6 (as claimed): a call whose route's adapters all failed answers with
\* status 500, not with the not-found status.
C6_AllFailedIs500 ==
  \A r \in Calls :
    (Done(r) /\ r.resp.path = "allFailed") => r.resp.status = 500

\* C7 (as claimed): a resolve that starts less than 5 minutes after a resolve
\* of the same ticker ended with all adapters failed returns the same failure
\* and issues no provider request.
C7_FailureRoundTrip ==
  \A r \in Calls :
    (Done(r) /\ r.prev.path = "allFailed" /\ r.since < 5 * 60 * 1000) =>
      /\ r.resp.status = r.prev.status
      /\ r.fetches = <<>>

\* C8: the entry a call finds under its key is used exactly while its age is
\* under 5 minutes, whether it records a success or a failure; from an age of
\* 5 minutes on the call does not answer from the cache and invokes the
\* adapters of its route.
C8_Expiry ==
  \A r \in Calls :
    r.lookup.done =>
      LET fresh == r.lookup.present /\ r.lookup.age < 5 * 60 * 1000
          served == Parsed(r).exchange \notin {AMS, SWX, BME, BIT, OSE, SSE, SZSE}
      IN  /\ fresh =>
                 /\ Done(r)
                 /\ r.resp.path = "cacheHit"
                 /\ r.resp.source \in {"cache", ""}
                 /\ r.calls = <<>>
          /\ ~fresh =>
                 /\ r.resp.path # "cacheHit"
                 /\ r.resp.source # "cache"
                 /\ served => r.calls # <<>>

\* An entry aged exactly 5 minutes was found and the adapters were invoked.
C8_Witness ==
  \E r \in Calls :
    /\ r.lookup.done
    /\ r.lookup.present
    /\ r.lookup.age = 5 * 60 * 1000
    /\ r.calls # <<>>

\* C9: with a real key, a direct answer that reports the symbol unknown
\* ("Error Message") ends the call with 404 and one that reports rate
\* limiting ("Information") ends it with 429; no adapter is invoked and the
\* dynamic resolution is not entered.
C9_ShortCircuit ==
  \A r \in Calls :
    (r.direct.kind = "ok" /\ (r.direct.err \/ r.direct.info)) =>
      /\ apiKey = "real"
      /\ Done(r)
      /\ r.direct.err => r.resp.status = 404
      /\ r.direct.info => r.resp.status = 429
      /\ r.calls = <<>>
      /\ ~r.lookup.done
      /\ Len(r.fetches) = 1

\* A call ended 404 on "Error Message" while the cache held a fresh quote
\* under its symbol.
C9_Witness ==
  \E r \in Calls :
    /\ Done(r) /\ r.direct.err /\ r.resp.status = 404
    /\ tickerCache[Parsed(r).symbol].present
    /\ tickerCache[Parsed(r).symbol].valid
    /\ now - tickerCache[Parsed(r).symbol].timestamp < 5 * 60 * 1000

\* C10: with a real key, a direct answer that is a non-2xx status, a rejected
\* fetch, an unparsable body, or a body with neither a price nor a marker does
\* not end the call: the dynamic resolution runs (cache lookup, then the
\* route's first adapter on a miss), and its outcome is the response.
C10_FallThrough ==
  \A r \in Calls :
    /\ (\/ r.direct.kind \in {"non2xx", "neterr", "unparsable"}
        \/ (r.direct.kind = "ok" /\ r.direct.field = Undefined
              /\ ~r.direct.err /\ ~r.direct.info)) =>
         /\ r.lookup.done
         /\ r.lookup.key = Parsed(r).symbol
         /\ r.lookup.hit =>
              (Done(r) /\ r.resp.path = "cacheHit")
         /\ (~r.lookup.hit /\ Parsed(r).exchange # AMS) =>
              /\ r.pc = "adapter"
              /\ Len(r.calls) = 1
         /\ Done(r) => r.resp.path \in {"cacheHit", "unsupported"}
    /\ (apiKey = "real" /\ Done(r) /\ r.reads # {}) =>
         /\ r.resp.path \in {"cacheHit", "unsupported", "adapter", "allFailed"}
         /\ r.resp.status \in {200, 404}
         /\ r.resp.status = 200 <=>
              (r.resp.path = "adapter"
                 \/ (r.resp.path = "cacheHit" /\ r.resp.source = "cache"))

\* A rejected direct fetch was followed by the first international adapter.
C10_Witness ==
  \E r \in Calls :
    /\ r.direct.kind = "neterr"
    /\ r.pc = "adapter"
    /\ r.calls = <<[method |-> "validateWithAlphaVantageDemo",
                         result |-> "pending"]>>

C12_NoUncaught ==
  \A r \in Calls :
    /\ r.pc \in {"direct", "adapter", "done"}
    /\ ~Done(r) => r.resp.status = 0
    /\ Done(r) =>
         /\ r.resp.status \in {200, 400, 404, 429, 500}
         /\ r.resp.path # "uncaught"
         /\ r.resp.status = 200 <=> r.resp.ticker # <<>>
         /\ r.resp.status # 200 =>
              (r.resp.price = Undefined /\ r.resp.source = "")

\* With a real key the direct request failed and then every adapter of the
\* route failed: the call returned 404.
C12_Witness ==
  \E r \in Calls :
    /\ Done(r)
    /\ apiKey = "real"
    /\ Len(r.fetches) = 4
    /\ Len(r.calls) = 3
    /\ \A i \in 1..3 : r.calls[i].result = "fail"
    /\ r.resp.status = 404

\* C13 (as claimed): every provider call is time-boxed, so every call
\* eventually returns even if a provider never answers: from some point on no
\* call is left suspended.
C13_AlwaysReturns == <>[](\A r \in Calls : Done(r))

\* C14 (as claimed): every 200 response carries a number greater than 0 as
\* its price, and so does every success entry of the cache.
C14_PositivePrice ==
  /\ \A r \in Calls :
       (Done(r) /\ r.resp.status = 200) =>
         /\ r.resp.price \notin {Undefined, NaN}
         /\ r.resp.price > 0
  /\ \A k \in DOMAIN tickerCache :
       (tickerCache[k].present /\ tickerCache[k].valid) =>
         /\ tickerCache[k].price \notin {Undefined, NaN}
         /\ tickerCache[k].price > 0

\* C15 (as claimed): when a call returns a quote, the cache holds that quote
\* for the call's ticker (under its symbol or its canonical form); a quote
\* that did not come from the cache was stored at the time of the return.
C15_QuoteCached ==
  \A r \in Calls :
    (Done(r) /\ r.resp.status = 200) =>
      \E k \in {Parsed(r).symbol, Parsed(r).fullTicker} \cap DOMAIN tickerCache :
        /\ tickerCache[k].present
        /\ tickerCache[k].valid
        /\ tickerCache[k].price = r.resp.price
        /\ r.resp.source # "cache" => tickerCache[k].timestamp = now

\* Provider calls of a request that have not settled
Pending(r) ==
  (IF r.pc = "direct" THEN 1 ELSE 0)
    + Cardinality({i \in 1..Len(r.calls) : r.calls[i].result = "pending"})

\* C16: within one call at most one provider call is unsettled at any
\* moment; an adapter is started only after the direct request and every
\* adapter started before it have settled as failures, and no request has
\* been sent for an adapter not yet started.
C16_OneAtATime ==
  \A r \in Calls :
    /\ Pending(r) <= 1
    /\ r.pc = "direct" => r.calls = <<>>
    /\ \A i \in 1..(Len(r.calls) - 1) : r.calls[i].result = "fail"
    /\ Len(r.fetches) <= Len(r.calls) + (IF apiKey = "real" THEN 1 ELSE 0)
    /\ Done(r) => Pending(r) = 0

\* The second adapter of a route is awaited after the first settled as failed
\* and the third has not been started.
C16_Witness ==
  \E r \in Calls :
    /\ r.pc = "adapter"
    /\ Len(r.calls) = 2
    /\ r.calls[1].result = "fail"
    /\ r.calls[2].result = "pending"
    /\ Len(r.fetches) = 2

\* The entry a finished call stored: its outcome, its price, the time of the set
Stored(r) ==
  [present |-> TRUE, valid |-> (r.resp.status = 200),
   price |-> r.resp.price, timestamp |-> now]

\* C17: under any interleaving of calls, an entry of the cache changes only
\* by the set of a call that finishes in that step, and after the step the
\* entry is exactly what that call stored (its valid flag, its price, the
\* time of the set): never a mix with what another call stored before, and
\* the last set is the one found in the cache.
C17_LastSetWins ==
  [][ /\ \A k \in DOMAIN tickerCache :
           tickerCache'[k] # tickerCache[k] =>
             \E r \in BagToSet(req') :
               /\ r.pc = "done"
               /\ r.resp.path \in {"adapter", "allFailed"}
               /\ k \in r.writes
               /\ tickerCache'[k] = Stored(r)'
      /\ \A r \in BagToSet(req') :
           (r.pc = "done" /\ r.resp.path \in {"adapter", "allFailed"}) =>
             /\ r.writes # {}
             /\ \A k \in r.writes : tickerCache'[k] = Stored(r)'
    ]_vars

\* Two calls for the same symbol ran concurrently; one has stored its quote
\* while the other is still at its last adapter, and that quote is the entry.
C17_Witness ==
  \E r1 \in Calls, r2 \in Calls :
    /\ Done(r1) /\ r1.resp.path = "adapter"
    /\ r2.pc = "adapter" /\ r2.idx = 3
    /\ Parsed(r1).symbol = Parsed(r2).symbol
    /\ tickerCache[Parsed(r1).symbol] = Stored(r1)

\* The input in upper case without surrounding blanks, and its ':' positions
Upper(input) == Trim(ToUpperCase(input))
Colons(u) == {i \in 1..Len(u) : u[i] = ":"}

\* C18 (as claimed): parseTicker splits the uppercased, trimmed input at its
\* ':' only when it contains exactly one; with none, or with two or more, the
\* exchange is absent and the symbol is the whole uppercased, trimmed input,
\* and an input with two or more ':' fails validation.
C18_SplitOnSingleColon ==
  LET u == Upper(parse.input)
      cs == Colons(u)
  IN  /\ parse.phase \in {"parsed", "validated"} =>
           IF Cardinality(cs) = 1
           THEN LET i == CHOOSE k \in cs : TRUE
                IN  /\ parse.info.exchange = Trim(SubSeq(u, 1, i - 1))
                    /\ parse.info.symbol = Trim(SubSeq(u, i + 1, Len(u)))
           ELSE /\ parse.info.exchange = NoExchange
                /\ parse.info.symbol = u
      /\ (parse.phase \in {"validated", "reparsed"} /\ Cardinality(cs) >= 2) =>
           ~parse.valid

\* C19 (as claimed): for an accepted input the parsed symbol is non-empty and
\* in capital letters, and fullTicker is exchange ':' symbol when the input
\* names an exchange and the symbol otherwise (for an empty exchange part,
\* either form).
C19_CanonicalForm ==
  (parse.phase \in {"validated", "reparsed"} /\ parse.valid) =>
    LET p == parse.info IN
    /\ p.symbol # <<>>
    /\ \A i \in 1..Len(p.symbol) : IsUpperLetter(p.symbol[i])
    /\ p.exchange = NoExchange => p.fullTicker = p.symbol
    /\ (p.exchange # NoExchange /\ p.exchange # <<>>) =>
         p.fullTicker = p.exchange \o <<":">> \o p.symbol
    /\ p.exchange = <<>> =>
         p.fullTicker \in {p.symbol, <<":">> \o p.symbol}

\* C20 (as claimed): isValidTickerFormat accepts an input exactly when the
\* parsed symbol is 1..10 capital letters on NSE, BSE, MCX, NCDEX or ICEX and
\* 1..5 capital letters otherwise, and the exchange part, whenever the input
\* has one (an empty one included), is a recognized exchange.
C20_AcceptsExactly ==
  parse.phase \in {"validated", "reparsed"} =>
    LET p == parse.info
        max == IF p.exchange \in {NSE, BSE, MCX, NCDEX, ICEX} THEN 10 ELSE 5
    IN  parse.valid <=>
          /\ Len(p.symbol) \in 1..max
          /\ \A i \in 1..Len(p.symbol) : IsUpperLetter(p.symbol[i])
          /\ p.exchange # NoExchange =>
               p.exchange \in
                 {NASDAQ, NYSE, AMEX, LSE, LON, FRA, AMS, SWX, BME, BIT, OSE,
                  XETRA, EURONEXT, TSE, ASX, TSX, HKEX, TYO, BSE, NSE, MCX,
                  NCDEX, ICEX, SSE, SZSE}

\* C21: parsing is idempotent on the canonical form: for every input that
\* validation accepts, parseTicker applied to the fullTicker of the parsed
\* input gives the same exchange, the same symbol and the same fullTicker.
C21_ParseIdempotent ==
  parse.phase = "reparsed" =>
    /\ parse.again.exchange = parse.info.exchange
    /\ parse.again.symbol = parse.info.symbol
    /\ parse.again.fullTicker = parse.info.fullTicker

\* A lower-case input with a blank in front and an exchange was parsed,
\* accepted and parsed again from its fullTicker.
C21_Witness ==
  /\ parse.phase = "reparsed"
  /\ parse.input = <<" ", "a", "m", "s", ":", "A">>
  /\ parse.again.exchange = AMS
  /\ parse.again.symbol = <<"A">>

\* C22 (as claimed): when the direct request ends a call with not-found (404)
\* or rate-limited (429), the cache holds an entry recording that failure for
\* the ticker, and a resolve of the same ticker that starts within 5 minutes
\* sends no provider request.
C22_DirectFailureCached ==
  \A r \in Calls :
    /\ (Done(r) /\ r.resp.path \in {"directNotFound", "directRateLimited"}) =>
         \E k \in {Parsed(r).symbol, Parsed(r).fullTicker} \cap DOMAIN tickerCache :
           /\ tickerCache[k].present
           /\ ~tickerCache[k].valid
    /\ (r.prev.path \in {"directNotFound", "directRateLimited"}
          /\ r.since < 5 * 60 * 1000) =>
         r.fetches = <<>>

\* The raw ticker consists of letters only (no exchange prefix)
AllLetters(raw) ==
  raw # <<>> /\ \A i \in 1..Len(raw) : IsUpperLetter(ToUpperChar(raw[i]))

\* C23 (as claimed): a request for a ticker made of letters only, without an
\* exchange prefix, that no provider knows (no quote, no rate limiting) is
\* answered 404, not 400.
C23_UnknownIsNotFound ==
  \A r \in Calls :
    (Done(r) /\ AllLetters(r.raw) /\ r.resp.status \notin {200, 429}) =>
      r.resp.status = 404

\* C24: the Kite endpoints classify failures as documented.  Without
\* KITE_API_KEY or KITE_ACCESS_TOKEN every request is answered 400 with
\* setup_required and the Kite API is never called; an error whose message
\* contains TokenException gives 401 with token_expired; otherwise one
\* containing NetworkException gives 503 with network_error; any other error
\* gives 500; a success body is produced only when the Kite call returned.
C24_KiteClassification ==
  \A e \in {"positions", "holdings"} :
    LET k == kite.at[e]
        has(w) == /\ k.outcome.message # <<"undefined">>
                  /\ w \in {k.outcome.message[i] : i \in 1..Len(k.outcome.message)}
    IN  /\ (~kite.env.apiKey \/ ~kite.env.token) =>
             /\ kite.apiCalls = 0
             /\ k.pc # "await"
             /\ k.pc = "done" =>
                  (k.resp.status = 400 /\ k.resp.flag = "setup_required")
        /\ (k.pc = "done" /\ k.outcome.kind = "rejected") =>
             /\ has("TokenException") =>
                  (k.resp.status = 401 /\ k.resp.flag = "token_expired")
             /\ (~has("TokenException") /\ has("NetworkException")) =>
                  (k.resp.status = 503 /\ k.resp.flag = "network_error")
             /\ (~has("TokenException") /\ ~has("NetworkException")) =>
                  k.resp.status = 500
        /\ (k.pc = "done" /\ k.resp.status = 400) =>
             (~kite.env.apiKey \/ ~kite.env.token)
        /\ k.resp.success =>
             /\ k.resp.status = 200
             /\ k.outcome.kind = "returned"
             /\ k.outcome.rows >= 0
             /\ kite.apiCalls = kite.served
        /\ (k.pc = "done" /\ ~k.resp.success) =>
             k.resp.status \in {400, 401, 503, 500}

\* The Kite call of the holdings endpoint rejected with a message containing
\* both words: the request was answered 401.
C24_Witness ==
  /\ kite.at["holdings"].pc = "done"
  /\ kite.at["holdings"].outcome.message =
       <<"NetworkException", "after", "TokenException">>
  /\ kite.at["holdings"].resp.status = 401

\* C25: on the Indian route the adapters are invoked in the order Alpha
\* Vantage India, Yahoo Finance India, NSE API, each only after all before it
\* failed and none after a success; the first two request symbol ".NS" for
\* NSE and symbol ".BO" for BSE (and nothing for another exchange), and the
\* NSE API is requested only for NSE, with the bare symbol.
C25_IndianOrder ==
  LET order == <<"fetchFromAlphaVantageIndian", "fetchFromYahooFinanceIndian",
                 "fetchFromNSEAPI">>
      name == <<"Alpha Vantage India", "Yahoo Finance India", "NSE API">>
  IN  \A r \in Calls :
        (~Rejected[r.raw] /\ Parsed(r).exchange \in {NSE, BSE, MCX, NCDEX, ICEX}) =>
          LET calls == r.calls
              n == Len(calls)
              x == Parsed(r).exchange
              sent == {r.fetches[i] : i \in 1..Len(r.fetches)}
              suffixed == IF x = NSE THEN {Parsed(r).symbol \o <<".", "N", "S">>}
                          ELSE IF x = BSE THEN {Parsed(r).symbol \o <<".", "B", "O">>}
                          ELSE {}
          IN  /\ n <= 3
              /\ \A i \in 1..n : calls[i].method = order[i]
              /\ \A i \in 1..(n - 1) : calls[i].result = "fail"
              /\ (n > 0 /\ calls[n].result = "ok") =>
                   /\ Done(r)
                   /\ r.resp.status = 200
                   /\ r.resp.source = name[n]
              /\ (Done(r) /\ n > 0 /\ calls[n].result = "fail") => n = 3
              /\ \A f \in sent :
                   /\ f.by \in {order[1], order[2]} => f.symbol \in suffixed
                   /\ f.by = order[3] => (x = NSE /\ f.symbol = Parsed(r).symbol)
              /\ \A i \in 1..n :
                   (x \in {NSE, BSE} /\ i <= 2) =>
                     \E f \in sent : f.by = order[i] /\ f.symbol \in suffixed
              /\ (x = NSE /\ n = 3) => \E f \in sent : f.by = order[3]

\* For a BSE ticker Alpha Vantage India failed and Yahoo Finance India,
\* asked for the symbol with ".BO", answered: its quote is returned and the
\* NSE API is not invoked.
C25_Witness ==
  \E r \in Calls :
    /\ Done(r)
    /\ Parsed(r).exchange = BSE
    /\ Len(r.calls) = 2
    /\ r.calls[2].result = "ok"
    /\ \E i \in 1..Len(r.fetches) :
         /\ r.fetches[i].by = "fetchFromYahooFinanceIndian"
         /\ r.fetches[i].symbol = <<"A", ".", "B", "O">>
    /\ r.resp.source = "Yahoo Finance India"

\* C26: the failure of one adapter never ends the resolution.  Whenever the
\* awaited adapter is not the last of its route and settles as a failure (a
\* non-2xx status, an unparsable body, a body without a price, a timeout, a
\* rejected fetch, or a throw before fetching), the same call goes on to
\* await the next adapter of the route, with no response and no cache write;
\* a timeout is followed by the same step as any other failure.
C26_FailureNotFatal ==
  [][ \A rq \in Calls, a \in AdapterAnswers \cup {Threw} :
        ( /\ rq.pc = "adapter"
          /\ rq.idx < 3
          /\ (a.kind \in {"non2xx", "unparsable", "timeout", "neterr", "unsupported"}
                \/ (a.kind = "ok" /\ a.field = Undefined))
          /\ AdapterReturn(rq, a, TRUE) ) =>
        /\ tickerCache' = tickerCache
        /\ \E r2 \in BagToSet(req') :
             /\ r2.pc = "adapter"
             /\ r2.raw = rq.raw
             /\ r2.route = rq.route
             /\ r2.idx = rq.idx + 1
             /\ Len(r2.calls) = Len(rq.calls) + 1
             /\ r2.calls[rq.idx].result = "fail"
             /\ r2.calls[r2.idx].result = "pending"
             /\ r2.resp.status = 0
             /\ r2.writes = rq.writes
             /\ r2.failure = a.kind
    ]_vars

\* The fetch of Yahoo Finance, the second international adapter, timed out
\* and the call now awaits the third.
C26_Witness ==
  \E r \in Calls :
    /\ r.pc = "adapter"
    /\ r.failure = "timeout"
    /\ r.calls = <<[method |-> "validateWithAlphaVantageDemo", result |-> "fail"],
                   [method |-> "validateWithYahooFinance", result |-> "fail"],
                   [method |-> "validateWithPolygonDemo", result |-> "pending"]>>

C28_SuccessNotOverwritten ==
  [][ \A k \in DOMAIN tickerCache :
        ( /\ tickerCache[k].present
          /\ tickerCache[k].valid
          /\ now - tickerCache[k].timestamp < 5 * 60 * 1000 ) =>
        ~(tickerCache'[k].present /\ ~tickerCache'[k].valid)
    ]_vars

\* C29 (as claimed): with the demo key a call for a ticker on MCX, NCDEX or
\* ICEX sends no request at all, returns not-found and leaves a failure
\* entry under the bare symbol; and a call for that symbol on another
\* exchange or with none that finds this entry younger than 5 minutes returns
\* not-found without any provider call.
C29_McxPoisonsSymbol ==
  apiKey = "demo" =>
    \A r \in Calls :
      /\ (~Rejected[r.raw] /\ Parsed(r).exchange \in {MCX, NCDEX, ICEX}) =>
           /\ r.fetches = <<>>
           /\ Done(r) =>
                /\ r.resp.status = 404
                /\ tickerCache[Parsed(r).symbol].present
                /\ ~tickerCache[Parsed(r).symbol].valid
      /\ ( /\ ~Rejected[r.raw]
           /\ Parsed(r).exchange \notin {MCX, NCDEX, ICEX}
           /\ r.lookup.done /\ r.lookup.present
           /\ r.lookup.age < 5 * 60 * 1000
           /\ ~tickerCache[Parsed(r).symbol].valid ) =>
           /\ Done(r)
           /\ r.resp.status = 404
           /\ r.fetches = <<>>

\* C30 (as claimed): the screener endpoint stores the result of a lookup for
\* 24 hours even when both sources failed, and a request answered from the
\* cache sends no source request and has the classification of the request
\* that stored the entry: a stored failure is answered with success false
\* and status 404, a stored success with success true and status 200.
C30_ScreenerCacheConsistent ==
  screener.pc = "done" =>
    LET key == [i \in 1..Len(ScreenerSymbol(screener.ticker)) |->
                  ToLowerChar(ScreenerSymbol(screener.ticker)[i])]
        entry == screener.cache[key]
        first == screener.stored[key]
    IN  /\ entry.present
        /\ screener.at - entry.timestamp < 24 * 60 * 60 * 1000
        /\ ~screener.hit =>
             /\ screener.fetches \in {1, 2}
             /\ entry.timestamp = screener.at
             /\ (entry.data.error # "") <=> ~screener.resp.success
        /\ screener.hit =>
             /\ screener.fetches = 0
             /\ screener.resp.success = first.success
             /\ screener.resp.status = first.status
             /\ ~first.success =>
                  (~screener.resp.success /\ screener.resp.status = 404)

====
